---------------------------- MODULE Spec2Model ----------------------------
(***************************************************************************)
(* A model of pdp8.py: the 4K PDP-8 CPU (class PDP8), its teletype         *)
(* keyboard (class TeletypeKeyboard) and printer (class TeletypePrinter),  *)
(* and the console commands of runDebugger that change the machine.        *)
(*                                                                         *)
(* Octal numbers are written \o... as in the source (0o...).               *)
(***************************************************************************)
EXTENDS Integers, Sequences, FiniteSets, TLC

VARIABLES
    memory,         \* PDP8._memory: array('H', [0] * 4096), kept sparse (see Read)
    pc,             \* PDP8._pc
    ac,             \* PDP8._ac
    mq,             \* PDP8._mq
    l,              \* PDP8._l
    ie,             \* PDP8._ie
    ieCounter,      \* PDP8._ieCounter
    switch,         \* PDP8._switch
    halted,         \* PDP8._halted
    ioPollCounter,  \* PDP8._ioPollCounter
    kb,             \* PDP8._ttyKeyboard: the TeletypeKeyboard's fields
    pr,             \* PDP8._ttyPrinter: the TeletypePrinter's fields
    stdout,         \* the characters written to sys.stdout by the printer
    notices,        \* how many " ** end of paper tape **" notices were printed
    nsteps,         \* history: step() calls since construction
    ncmds,          \* history: console commands since Init
    pre,            \* history: the machine as it was when the last step() began
    last            \* history: what the last operation was and what it did

vars == << memory, pc, ac, mq, l, ie, ieCounter, switch, halted, ioPollCounter,
           kb, pr, stdout, notices, nsteps, ncmds, pre, last >>

-----------------------------------------------------------------------------
(* Python's integer operators on the values the program applies them to.   *)

\* a & b for a, b >= 0
RECURSIVE BitAnd(_, _)
BitAnd(a, b) ==
    IF a = 0 \/ b = 0 THEN 0
    ELSE (a % 2) * (b % 2) + 2 * BitAnd(a \div 2, b \div 2)

\* a | b for a, b >= 0
RECURSIVE BitOr(_, _)
BitOr(a, b) ==
    IF a = 0 THEN b
    ELSE IF b = 0 THEN a
    ELSE (IF a % 2 = 1 \/ b % 2 = 1 THEN 1 ELSE 0) + 2 * BitOr(a \div 2, b \div 2)

\* x & 0o7777, for any integer x (Python's & on a negative x is the residue)
Mask12(x) == x % 4096

\* (opcode & bit) != 0 for a single-bit mask
Has(opcode, bit) == (opcode \div bit) % 2 = 1

-----------------------------------------------------------------------------
(* Memory: 4096 words, all 0 at construction.  The model keeps only the    *)
(* non-zero words: an address outside DOMAIN of the function holds 0.      *)

MemSize == 4096

EmptyMemory == << >>

Read(mem, a) == IF a \in DOMAIN mem THEN mem[a] ELSE 0

Write(mem, a, v) ==
    IF v = 0
    THEN [x \in (DOMAIN mem) \ {a} |-> mem[x]]
    ELSE [x \in (DOMAIN mem) \cup {a} |-> IF x = a THEN v ELSE mem[x]]

-----------------------------------------------------------------------------
(* TeletypeKeyboard                                                        *)

NoChar == -1    \* select() reports nothing to read on stdin

KeyboardInit ==
    [flag |-> FALSE, char |-> 0, charReady |-> FALSE, ie |-> FALSE,
     paperTapeLoaded |-> FALSE, tape |-> << >>]

\* Mutant of KeyboardIOT: the read is decided by bit 4 of the function, so
\* function 5 reads the character as function 4 does
KeyboardIOT_ReadOnBit4(k, opcode, acc) ==
    LET function == opcode % 8
        k1 == IF function \in {0, 2, 6} THEN [k EXCEPT !.flag = FALSE] ELSE k
    IN  [dev     |-> k1,
         skip    |-> (function = 1 /\ k.flag),
         clearac |-> (function \in {2, 6}),
         data    |-> IF function \in {4, 5, 6} THEN k.char ELSE 0,
         emit    |-> << >>]

\* TeletypeKeyboard.IOT: the device after the IOT, and (skip, clearac, data)
KeyboardIOT(k, opcode, acc) ==
    LET function == opcode % 8
        k1 == IF function \in {0, 2, 6} THEN [k EXCEPT !.flag = FALSE] ELSE k
    IN  [dev     |-> k1,
         skip    |-> (function = 1 /\ k.flag),
         clearac |-> (function \in {2, 6}),
         data    |-> IF function \in {4, 6} THEN k.char ELSE 0,
         emit    |-> << >>]

\* TeletypeKeyboard.pollCharacter (the os.name != 'nt' branch); host is the
\* byte select()/read(1) yields, or NoChar
pollCharacter(k, host) ==
    IF ~k.charReady /\ host # NoChar
    THEN [k EXCEPT !.charReady = TRUE,
                   !.char = (IF host = 10 THEN 13 ELSE host) % 128]
    ELSE k

\* Mutant of KeyboardClock: at the end of the tape the device stays attached
KeyboardClock_StaysAttached(k, host) ==
    IF k.paperTapeLoaded
    THEN IF ~k.flag
         THEN IF k.tape = << >>
              THEN [dev |-> [k EXCEPT !.char = 0], notice |-> 1]
              ELSE [dev |-> [k EXCEPT !.char = Head(k.tape), !.flag = TRUE,
                                      !.tape = Tail(k.tape)],
                    notice |-> 0]
         ELSE [dev |-> k, notice |-> 0]
    ELSE LET k1 == pollCharacter(k, host)
         IN  IF ~k1.flag /\ k1.charReady
             THEN [dev |-> [k1 EXCEPT !.flag = TRUE, !.charReady = FALSE],
                   notice |-> 0]
             ELSE [dev |-> k1, notice |-> 0]

\* TeletypeKeyboard.clock: the device after the tick, and the notices printed
KeyboardClock(k, host) ==
    IF k.paperTapeLoaded
    THEN IF ~k.flag
         THEN IF k.tape = << >>
              THEN [dev |-> [k EXCEPT !.paperTapeLoaded = FALSE, !.char = 0],
                    notice |-> 1]
              ELSE [dev |-> [k EXCEPT !.char = Head(k.tape), !.flag = TRUE,
                                      !.tape = Tail(k.tape)],
                    notice |-> 0]
         ELSE [dev |-> k, notice |-> 0]
    ELSE LET k1 == pollCharacter(k, host)
         IN  IF ~k1.flag /\ k1.charReady
             THEN [dev |-> [k1 EXCEPT !.flag = TRUE, !.charReady = FALSE],
                   notice |-> 0]
             ELSE [dev |-> k1, notice |-> 0]

\* TeletypeKeyboard.attachPaperTape: open the image, whose bytes are tape
attachPaperTape(k, tape) == [k EXCEPT !.tape = tape, !.paperTapeLoaded = TRUE]

\* TeletypeKeyboard.detachPaperTape: close the image
detachPaperTape(k) == [k EXCEPT !.tape = << >>, !.paperTapeLoaded = FALSE]

-----------------------------------------------------------------------------
(* TeletypePrinter                                                         *)

PrinterInit == [flag |-> TRUE, outputPending |-> FALSE, interrupt |-> FALSE]

\* Mutant of PrinterIOT: function 2 clears the flag and leaves the interrupt
\* request standing
PrinterIOT_KeepsRequest(p, opcode, acc) ==
    LET function == opcode % 8
        p1 == CASE function = 0 -> [p EXCEPT !.flag = TRUE]
                [] function = 2 -> [p EXCEPT !.flag = FALSE]
                [] function = 4 -> [p EXCEPT !.outputPending = TRUE]
                [] function = 6 -> [p EXCEPT !.flag = FALSE, !.interrupt = FALSE,
                                             !.outputPending = TRUE]
                [] OTHER -> p
    IN  [dev     |-> p1,
         skip    |-> (function = 1 /\ p.flag),
         clearac |-> FALSE,
         data    |-> 0,
         emit    |-> IF function \in {4, 6} THEN << acc % 128 >> ELSE << >>]

\* TeletypePrinter.IOT: the device after the IOT, (skip, clearac, data) and
\* the characters written to sys.stdout
PrinterIOT(p, opcode, acc) ==
    LET function == opcode % 8
        p1 == CASE function = 0 -> [p EXCEPT !.flag = TRUE]
                [] function = 2 -> [p EXCEPT !.flag = FALSE, !.interrupt = FALSE]
                [] function = 4 -> [p EXCEPT !.outputPending = TRUE]
                [] function = 6 -> [p EXCEPT !.flag = FALSE, !.interrupt = FALSE,
                                             !.outputPending = TRUE]
                [] OTHER -> p
    IN  [dev     |-> p1,
         skip    |-> (function = 1 /\ p.flag),
         clearac |-> FALSE,
         data    |-> 0,
         emit    |-> IF function \in {4, 6} THEN << acc % 128 >> ELSE << >>]

\* Mutant of PrinterClock: the flag is set but no interrupt request is raised
PrinterClock_NoRequest(p) ==
    IF ~p.flag /\ p.outputPending
    THEN [p EXCEPT !.flag = TRUE, !.outputPending = FALSE]
    ELSE p

\* TeletypePrinter.clock
PrinterClock(p) ==
    IF ~p.flag /\ p.outputPending
    THEN [p EXCEPT !.flag = TRUE, !.interrupt = TRUE, !.outputPending = FALSE]
    ELSE p

-----------------------------------------------------------------------------
(* PDP8.  The operators below work on a record m of the machine's fields,  *)
(* so that one step() can be composed from the methods it calls.           *)

\* PDP8.__init__
MachineInit ==
    [memory |-> EmptyMemory, pc |-> 0, ac |-> 0, mq |-> 0, l |-> 0,
     ie |-> FALSE, ieCounter |-> 0, switch |-> 0, halted |-> TRUE,
     ioPollCounter |-> 0, kb |-> KeyboardInit, pr |-> PrinterInit,
     stdout |-> << >>, notices |-> 0]

\* The machine's fields as the record the operators work on
Machine ==
    [memory |-> memory, pc |-> pc, ac |-> ac, mq |-> mq, l |-> l,
     ie |-> ie, ieCounter |-> ieCounter, switch |-> switch, halted |-> halted,
     ioPollCounter |-> ioPollCounter, kb |-> kb, pr |-> pr,
     stdout |-> stdout, notices |-> notices]

\* self._iotMap: the opcodes dispatched to each device
KeyboardOpcodes == {\o6030, \o6031, \o6032, \o6034, \o6035, \o6036}
PrinterOpcodes  == {\o6040, \o6041, \o6042, \o6044, \o6045, \o6046}

\* PDP8.getInstruction
getInstruction(m) == Read(m.memory, m.pc)

\* address & 0o7600 | offset, for the current-page case of getEffectiveAddress
PageOf(p) == ((p % 4096) \div 128) * 128

\* The address getEffectiveAddress forms before indirection
DirectAddress(m, opcode) ==
    IF Has(opcode, \o200) THEN PageOf(m.pc) + (opcode % 128) ELSE opcode % 128

\* PDP8.getEffectiveAddress: the machine after the auto-index side effect,
\* and the address returned
getEffectiveAddress(m, opcode) ==
    LET address == DirectAddress(m, opcode)
    IN  IF Has(opcode, \o400)
        THEN LET mem1 == IF address >= \o10 /\ address < \o20
                         THEN Write(m.memory, address,
                                    Mask12(Read(m.memory, address) + 1))
                         ELSE m.memory
             IN  [m |-> [m EXCEPT !.memory = mem1], addr |-> Read(mem1, address)]
        ELSE [m |-> m, addr |-> address]

\* PDP8.getArg: the machine after address resolution, and the word read
getArg(m, opcode) ==
    LET ea == getEffectiveAddress(m, opcode)
    IN  [m |-> ea.m, arg |-> Read(ea.m.memory, ea.addr)]

\* PDP8.putArg
putArg(m, opcode, arg) ==
    LET ea == getEffectiveAddress(m, opcode)
    IN  [ea.m EXCEPT !.memory = Write(ea.m.memory, ea.addr, Mask12(arg))]

\* PDP8.incrementPC
incrementPC(m) == [m EXCEPT !.pc = Mask12(m.pc + 1)]

\* PDP8.rar
rar(m) ==
    [m EXCEPT !.l = m.ac % 2,
              !.ac = Mask12(BitOr(m.ac \div 2, m.l * 2048))]

\* PDP8.ral
ral(m) ==
    [m EXCEPT !.l = (m.ac \div 2048) % 2,
              !.ac = Mask12(BitOr(m.ac * 2, m.l))]

\* PDP8.op_and
op_and(m, opcode) ==
    LET g == getArg(m, opcode)
    IN  [g.m EXCEPT !.ac = BitAnd(g.m.ac, g.arg)]

\* The link after a carry out of AC: (~l) & 1
ComplementL(lnk) == 1 - (lnk % 2)

\* Mutant of op_tad: a carry sets L instead of complementing it
op_tad_SetsLink(m, opcode) ==
    LET g   == getArg(m, opcode)
        sum == g.m.ac + g.arg
    IN  [g.m EXCEPT !.l = IF sum > \o7777 THEN 1 ELSE g.m.l,
                    !.ac = Mask12(sum)]

\* PDP8.op_tad
op_tad(m, opcode) ==
    LET g   == getArg(m, opcode)
        sum == g.m.ac + g.arg
    IN  [g.m EXCEPT !.l = IF sum > \o7777 THEN ComplementL(g.m.l) ELSE g.m.l,
                    !.ac = Mask12(sum)]

\* Mutant of op_isz: the skip is decided on the value before the increment
op_isz_SkipOnOldZero(m, opcode) ==
    LET g   == getArg(m, opcode)
        arg == Mask12(g.arg + 1)
        m1  == putArg(g.m, opcode, arg)
    IN  IF g.arg = 0 THEN incrementPC(m1) ELSE m1

\* PDP8.op_isz
op_isz(m, opcode) ==
    LET g   == getArg(m, opcode)
        arg == Mask12(g.arg + 1)
        m1  == putArg(g.m, opcode, arg)
    IN  IF arg = 0 THEN incrementPC(m1) ELSE m1

\* PDP8.op_dca
op_dca(m, opcode) == [putArg(m, opcode, m.ac) EXCEPT !.ac = 0]

\* PDP8.op_jms
op_jms(m, opcode) ==
    LET ea == getEffectiveAddress(m, opcode)
        m1 == incrementPC(ea.m)
        m2 == putArg(m1, opcode, m1.pc)
    IN  [m2 EXCEPT !.pc = Mask12(ea.addr)]

\* Mutant of op_jmp: the address before the target is not wrapped, so a
\* jump to 0 stays at 0 before the trailing increment
op_jmp_NoWrap(m, opcode) ==
    LET ea == getEffectiveAddress(m, opcode)
    IN  [ea.m EXCEPT !.pc = IF ea.addr = 0 THEN 0 ELSE ea.addr - 1]

\* PDP8.op_jmp
op_jmp(m, opcode) ==
    LET ea == getEffectiveAddress(m, opcode)
    IN  [ea.m EXCEPT !.pc = Mask12(ea.addr - 1)]

\* The device branch of op_iot: apply the (skip, clearac, data) a device returns
ApplyIOT(m, r) ==
    LET m1 == IF r.skip THEN incrementPC(m) ELSE m
        a1 == IF r.clearac THEN 0 ELSE m1.ac
    IN  [m1 EXCEPT !.ac = BitOr(a1, r.data),
                   !.stdout = m.stdout \o r.emit]

\* Mutant of InterruptOn: the enable waits for the end of the following step
InterruptOn_NextStep(m) == [m EXCEPT !.ieCounter = 2]

\* op_iot, ION (6001): start the delay counter
InterruptOn(m) == [m EXCEPT !.ieCounter = 1]

\* Mutant of op_iot: the processor's own IOTs are recognised by the function
\* bits alone, whatever the device code
op_iot_ByFunction(m, opcode) ==
    IF opcode \in KeyboardOpcodes
    THEN LET r == KeyboardIOT(m.kb, opcode, m.ac)
         IN  ApplyIOT([m EXCEPT !.kb = r.dev], r)
    ELSE IF opcode \in PrinterOpcodes
    THEN LET r == PrinterIOT(m.pr, opcode, m.ac)
         IN  ApplyIOT([m EXCEPT !.pr = r.dev], r)
    ELSE IF opcode % 8 = 0 THEN (IF m.ie THEN incrementPC(m) ELSE m)
    ELSE IF opcode % 8 = 1 THEN InterruptOn(m)
    ELSE IF opcode % 8 = 2 THEN [m EXCEPT !.ie = FALSE]
    ELSE m

\* PDP8.op_iot
op_iot(m, opcode) ==
    IF opcode \in KeyboardOpcodes
    THEN LET r == KeyboardIOT(m.kb, opcode, m.ac)
         IN  ApplyIOT([m EXCEPT !.kb = r.dev], r)
    ELSE IF opcode \in PrinterOpcodes
    THEN LET r == PrinterIOT(m.pr, opcode, m.ac)
         IN  ApplyIOT([m EXCEPT !.pr = r.dev], r)
    ELSE IF opcode = \o6000 THEN (IF m.ie THEN incrementPC(m) ELSE m)
    ELSE IF opcode = \o6001 THEN InterruptOn(m)
    ELSE IF opcode = \o6002 THEN [m EXCEPT !.ie = FALSE]
    ELSE m

\* Mutant of MicroGroup: Group three is matched with bit 10 clear only
MicroGroup_Group3Exact(opcode) ==
    IF BitAnd(opcode, \o7400) = \o7000 THEN "group1"
    ELSE IF BitAnd(opcode, \o7411) = \o7400 THEN "or"
    ELSE IF BitAnd(opcode, \o7411) = \o7410 THEN "and"
    ELSE IF BitAnd(opcode, \o7411) = \o7401 THEN "group3"
    ELSE "unhandled"

\* The branch of op_micro an instruction word takes
MicroGroup(opcode) ==
    IF BitAnd(opcode, \o7400) = \o7000 THEN "group1"
    ELSE IF BitAnd(opcode, \o7411) = \o7400 THEN "or"
    ELSE IF BitAnd(opcode, \o7411) = \o7410 THEN "and"
    ELSE IF BitAnd(opcode, \o7401) = \o7401 THEN "group3"
    ELSE "unhandled"

\* The IAC of Group One: ac += 1, a carry complements L and zeroes AC
IAC(m) ==
    IF m.ac + 1 > \o7777
    THEN [m EXCEPT !.l = ComplementL(m.l), !.ac = 0]
    ELSE [m EXCEPT !.ac = m.ac + 1]

\* The BSW of Group One: ac = (ac << 6) | (ac >> 6)
BSW(m) == [m EXCEPT !.ac = BitOr(m.ac * 64, m.ac \div 64)]

\* Mutant of MicroGroup1: the complements are applied before the clears
MicroGroup1_ComplementFirst(m, opcode) ==
    LET m1 == IF Has(opcode, \o40)
              THEN [m EXCEPT !.ac = \o7777 - (m.ac % 4096)] ELSE m
        m2 == IF Has(opcode, \o20) THEN [m1 EXCEPT !.l = ComplementL(m1.l)] ELSE m1
        m3 == IF Has(opcode, \o200) THEN [m2 EXCEPT !.ac = 0] ELSE m2
        m4 == IF Has(opcode, \o100) THEN [m3 EXCEPT !.l = 0] ELSE m3
        m5 == IF Has(opcode, \o1) THEN IAC(m4) ELSE m4
        m6 == IF Has(opcode, \o10) THEN rar(m5) ELSE m5
        m7 == IF Has(opcode, \o4) THEN ral(m6) ELSE m6
        m8 == IF Has(opcode, \o2) /\ Has(opcode, \o10) THEN rar(m7) ELSE m7
        m9 == IF Has(opcode, \o2) /\ Has(opcode, \o4) THEN ral(m8) ELSE m8
    IN  IF Has(opcode, \o2) /\ BitAnd(opcode, \o14) = 0 THEN BSW(m9) ELSE m9

\* op_micro, Group One
MicroGroup1(m, opcode) ==
    LET m1 == IF Has(opcode, \o200) THEN [m EXCEPT !.ac = 0] ELSE m
        m2 == IF Has(opcode, \o100) THEN [m1 EXCEPT !.l = 0] ELSE m1
        m3 == IF Has(opcode, \o40)
              THEN [m2 EXCEPT !.ac = \o7777 - (m2.ac % 4096)] ELSE m2
        m4 == IF Has(opcode, \o20) THEN [m3 EXCEPT !.l = ComplementL(m3.l)] ELSE m3
        m5 == IF Has(opcode, \o1) THEN IAC(m4) ELSE m4
        m6 == IF Has(opcode, \o10) THEN rar(m5) ELSE m5
        m7 == IF Has(opcode, \o4) THEN ral(m6) ELSE m6
        m8 == IF Has(opcode, \o2) /\ Has(opcode, \o10) THEN rar(m7) ELSE m7
        m9 == IF Has(opcode, \o2) /\ Has(opcode, \o4) THEN ral(m8) ELSE m8
    IN  IF Has(opcode, \o2) /\ BitAnd(opcode, \o14) = 0 THEN BSW(m9) ELSE m9

\* op_micro, Group Two (OR group): the skip decided on the entry values
SkipOr(m, opcode) ==
    \/ Has(opcode, \o20) /\ m.l # 0
    \/ Has(opcode, \o40) /\ m.ac = 0
    \/ Has(opcode, \o100) /\ Has(m.ac, \o4000)

\* Mutant of MicroOr: the switch register is OR-ed in before AC is cleared
MicroOr_SwitchBeforeClear(m, opcode) ==
    LET m1 == IF Has(opcode, \o4)
              THEN [m EXCEPT !.ac = BitOr(m.ac, m.switch)] ELSE m
        m2 == IF Has(opcode, \o200) THEN [m1 EXCEPT !.ac = 0] ELSE m1
        m3 == IF Has(opcode, \o2) THEN [m2 EXCEPT !.halted = TRUE] ELSE m2
    IN  IF SkipOr(m, opcode) THEN incrementPC(m3) ELSE m3

\* op_micro, Group Two (OR group)
MicroOr(m, opcode) ==
    LET m1 == IF Has(opcode, \o200) THEN [m EXCEPT !.ac = 0] ELSE m
        m2 == IF Has(opcode, \o2) THEN [m1 EXCEPT !.halted = TRUE] ELSE m1
        m3 == IF Has(opcode, \o4)
              THEN [m2 EXCEPT !.ac = BitOr(m2.ac, m2.switch)] ELSE m2
    IN  IF SkipOr(m, opcode) THEN incrementPC(m3) ELSE m3

\* Mutant of SkipAnd: the skip is taken when any requested test holds
SkipAnd_AnyTest(m, opcode) ==
    \/ BitAnd(opcode, \o160) = 0
    \/ Has(opcode, \o20) /\ m.l = 0
    \/ Has(opcode, \o40) /\ m.ac # 0
    \/ Has(opcode, \o100) /\ ~Has(m.ac, \o4000)

\* op_micro, Group Two (AND group): the skip decided on the entry values
SkipAnd(m, opcode) ==
    /\ Has(opcode, \o20) => m.l = 0
    /\ Has(opcode, \o40) => m.ac # 0
    /\ Has(opcode, \o100) => ~Has(m.ac, \o4000)

\* op_micro, Group Two (AND group)
MicroAnd(m, opcode) ==
    LET m1 == IF Has(opcode, \o200) THEN [m EXCEPT !.ac = 0] ELSE m
    IN  IF SkipAnd(m, opcode) THEN incrementPC(m1) ELSE m1

\* op_micro, Group Three
MicroGroup3(m, opcode) ==
    LET m1 == IF Has(opcode, \o200) THEN [m EXCEPT !.ac = 0] ELSE m
    IN  IF BitAnd(opcode, \o120) = \o120
        THEN [m1 EXCEPT !.ac = m1.mq, !.mq = m1.ac]
        ELSE LET m2 == IF Has(opcode, \o100)
                       THEN [m1 EXCEPT !.ac = BitOr(m1.ac, m1.mq)] ELSE m1
             IN  IF Has(opcode, \o20)
                 THEN [m2 EXCEPT !.mq = m2.ac, !.ac = 0] ELSE m2

\* PDP8.op_micro (the catch-all branch raises and is told apart by MicroGroup)
op_micro(m, opcode) ==
    CASE MicroGroup(opcode) = "group1" -> MicroGroup1(m, opcode)
      [] MicroGroup(opcode) = "or"     -> MicroOr(m, opcode)
      [] MicroGroup(opcode) = "and"    -> MicroAnd(m, opcode)
      [] MicroGroup(opcode) = "group3" -> MicroGroup3(m, opcode)
      [] OTHER -> m

\* The top three bits step() switches on
OpcodeOf(instruction) == (instruction \div 512) % 8

\* step(): the dispatch on the opcode
Dispatch(m, instruction) ==
    CASE OpcodeOf(instruction) = 0 -> op_and(m, instruction)
      [] OpcodeOf(instruction) = 1 -> op_tad(m, instruction)
      [] OpcodeOf(instruction) = 2 -> op_isz(m, instruction)
      [] OpcodeOf(instruction) = 3 -> op_dca(m, instruction)
      [] OpcodeOf(instruction) = 4 -> op_jms(m, instruction)
      [] OpcodeOf(instruction) = 5 -> op_jmp(m, instruction)
      [] OpcodeOf(instruction) = 6 -> op_iot(m, instruction)
      [] OTHER -> op_micro(m, instruction)

\* The count _ioPollCounter must exceed for the devices to be clocked
PollThreshold == 100

\* Mutant of PollDue: the devices are clocked when the counter reaches the
\* threshold, every 100 steps
PollDue_AtThreshold(m) == m.ioPollCounter + 1 >= PollThreshold

\* step(): whether this step clocks the devices
PollDue(m) == m.ioPollCounter + 1 > PollThreshold

\* step(): clock the devices
ClockDevices(m, host) ==
    LET k == KeyboardClock(m.kb, host)
    IN  [m EXCEPT !.ioPollCounter = 0, !.kb = k.dev, !.pr = PrinterClock(m.pr),
                  !.notices = m.notices + k.notice]

\* step(): the interrupt check made after the devices are clocked
InterruptDue(m) == m.ie /\ (m.kb.flag \/ m.pr.interrupt)

\* step(): interrupt delivery
Deliver(m) ==
    [m EXCEPT !.memory = Write(m.memory, 0, m.pc), !.ie = FALSE, !.pc = 1]

\* step(): the poll counter, the device clocks and the interrupt check; with
\* the machine, whether the devices were clocked and an interrupt delivered
Poll(m, host) ==
    IF PollDue(m)
    THEN LET m1 == ClockDevices(m, host)
         IN  IF InterruptDue(m1)
             THEN [m |-> Deliver(m1), polled |-> TRUE, delivered |-> TRUE]
             ELSE [m |-> m1, polled |-> TRUE, delivered |-> FALSE]
    ELSE [m |-> [m EXCEPT !.ioPollCounter = m.ioPollCounter + 1],
          polled |-> FALSE, delivered |-> FALSE]

\* step(): the deferred interrupt enable
IEDelay(m) ==
    IF m.ieCounter > 0
    THEN [m EXCEPT !.ieCounter = m.ieCounter - 1,
                   !.ie = IF m.ieCounter - 1 = 0 THEN TRUE ELSE m.ie]
    ELSE m

\* Whether executing the word raises: op_micro's catch-all branch calls the
\* undefined name printf, and the exception leaves step() at once
Raises(instruction) ==
    OpcodeOf(instruction) = 7 /\ MicroGroup(instruction) = "unhandled"

\* PDP8.step, for the byte (or NoChar) the host keyboard offers: the machine
\* after the step, and what the step did
step(m, host) ==
    IF Raises(getInstruction(m))
    THEN [m |-> m, polled |-> FALSE, delivered |-> FALSE, raised |-> TRUE]
    ELSE LET p == Poll(incrementPC(Dispatch(m, getInstruction(m))), host)
         IN  [m |-> IEDelay(p.m), polled |-> p.polled,
              delivered |-> p.delivered, raised |-> FALSE]

-----------------------------------------------------------------------------
(* The operations as actions.                                              *)

\* The machine record m becomes the next state
Becomes(m) ==
    /\ memory' = m.memory
    /\ pc' = m.pc
    /\ ac' = m.ac
    /\ mq' = m.mq
    /\ l' = m.l
    /\ ie' = m.ie
    /\ ieCounter' = m.ieCounter
    /\ switch' = m.switch
    /\ halted' = m.halted
    /\ ioPollCounter' = m.ioPollCounter
    /\ kb' = m.kb
    /\ pr' = m.pr
    /\ stdout' = m.stdout
    /\ notices' = m.notices

\* What `last` records of an operation
Did(op, host, polled, delivered, raised) ==
    [op |-> op, host |-> host, polled |-> polled, delivered |-> delivered,
     raised |-> raised]

\* One call of cpu.step(): the "s" command, or one turn of the "r" loop.
\* The host byte matters only to a step that clocks the keyboard.
Step(maxSteps, hostBytes) ==
    /\ nsteps < maxSteps
    /\ \E host \in (IF PollDue(Machine) THEN hostBytes \cup {NoChar} ELSE {NoChar}) :
         LET r == step(Machine, host)
         IN  /\ Becomes(r.m)
             /\ last' = Did("step", host, r.polled, r.delivered, r.raised)
    /\ nsteps' = nsteps + 1
    /\ pre' = Machine
    /\ UNCHANGED ncmds

\* A console command that leaves the machine as m; the prompt is read only
\* while the run loop is not running, that is while _halted holds
Console(maxCmds, op, m) ==
    /\ halted
    /\ ncmds < maxCmds
    /\ Becomes(m)
    /\ last' = Did(op, NoChar, FALSE, FALSE, FALSE)
    /\ ncmds' = ncmds + 1
    /\ UNCHANGED << nsteps, pre >>

\* Mutant of deposit: the address one past the last word is accepted
deposit_UpToSize(m, address, data) ==
    IF address <= MemSize /\ address >= 0
    THEN [m EXCEPT !.memory = Write(m.memory, address, Mask12(data))]
    ELSE m

\* PDP8.deposit
deposit(m, address, data) ==
    IF address < MemSize /\ address >= 0
    THEN [m EXCEPT !.memory = Write(m.memory, address, Mask12(data))]
    ELSE m

\* The "d" command
Deposit(maxCmds, address, data) ==
    Console(maxCmds, "deposit", deposit(Machine, address, data))

\* The "ac", "l", "pc" and "sw" commands
SetAC(maxCmds, v) == Console(maxCmds, "ac", [Machine EXCEPT !.ac = Mask12(v)])
SetL(maxCmds, v)  == Console(maxCmds, "l", [Machine EXCEPT !.l = v % 2])
SetPC(maxCmds, v) == Console(maxCmds, "pc", [Machine EXCEPT !.pc = Mask12(v)])
SetSW(maxCmds, v) == Console(maxCmds, "sw", [Machine EXCEPT !.switch = Mask12(v)])

\* The "r" command: clear _halted and enter the run loop
Run(maxCmds) == Console(maxCmds, "run", [Machine EXCEPT !.halted = FALSE])

\* breakHandler (SIGINT): stop the run loop
Break ==
    /\ ~halted
    /\ Becomes([Machine EXCEPT !.halted = TRUE])
    /\ last' = Did("break", NoChar, FALSE, FALSE, FALSE)
    /\ UNCHANGED << nsteps, ncmds, pre >>

\* The "rim" command: the RIM loader stored at 7756..7775
rimLoader ==
    << \o6032, \o6031, \o5357, \o6036, \o7106, \o7006, \o7510, \o5357,
       \o7006, \o6031, \o5367, \o6034, \o7420, \o3776, \o3376, \o5356 >>

Rim(maxCmds) ==
    Console(maxCmds, "rim",
            [Machine EXCEPT !.memory =
                [a \in (DOMAIN memory) \cup (\o7756 .. \o7775) |->
                    IF a \in \o7756 .. \o7775 THEN rimLoader[a - \o7756 + 1]
                    ELSE memory[a]]])

\* The "pt <image file>" command
AttachTape(maxCmds, tape) ==
    Console(maxCmds, "attach", [Machine EXCEPT !.kb = attachPaperTape(kb, tape)])

\* The "pt" command
DetachTape(maxCmds) ==
    Console(maxCmds, "detach", [Machine EXCEPT !.kb = detachPaperTape(kb)])

-----------------------------------------------------------------------------
(* Initial states.                                                         *)

\* The machine m with no step taken yet
Starts(m) ==
    /\ memory = m.memory
    /\ pc = m.pc
    /\ ac = m.ac
    /\ mq = m.mq
    /\ l = m.l
    /\ ie = m.ie
    /\ ieCounter = m.ieCounter
    /\ switch = m.switch
    /\ halted = m.halted
    /\ ioPollCounter = m.ioPollCounter
    /\ kb = m.kb
    /\ pr = m.pr
    /\ stdout = m.stdout
    /\ notices = m.notices
    /\ nsteps = 0
    /\ ncmds = 0
    /\ pre = m
    /\ last = Did("init", NoChar, FALSE, FALSE, FALSE)

-----------------------------------------------------------------------------
(* Spec: the machine as constructed, under every console command and       *)
(* step(), for a bounded number of commands and steps.                     *)

MaxCmds == 2
MaxSteps == 3

\* Arguments of the "d" command: addresses in and out of range, data in and
\* out of 12 bits
DepositAddrs == {-1, 0, 1, \o7777, \o10000, 5000}
DepositData  == {\o7002, \o1001, \o2001, \o7777, \o17777, -1}
\* Arguments of the register commands
RegisterData == {\o100, \o7777, \o10001}

Init == Starts(MachineInit)

Next ==
    \/ Step(MaxSteps, {})
    \/ \E a \in DepositAddrs, d \in DepositData : Deposit(MaxCmds, a, d)
    \/ \E v \in RegisterData : SetAC(MaxCmds, v)
    \/ \E v \in RegisterData : SetL(MaxCmds, v)
    \/ \E v \in RegisterData : SetPC(MaxCmds, v)
    \/ \E v \in RegisterData : SetSW(MaxCmds, v)
    \/ Rim(MaxCmds)
    \/ Run(MaxCmds)
    \/ Break

Spec == Init /\ [][Next]_vars

-----------------------------------------------------------------------------
(* SpecInstr: single instructions.  The machine starts as a console        *)
(* session leaves the constructed machine: the "pc", "ac" and "l" commands *)
(* set the registers, and "d" stores an instruction at PC, a word w1 where  *)
(* the instruction's address field points and a word w2 where an indirect  *)
(* reference through w1 lands.  Then step() runs.                          *)

MaxInstrSteps == 2

InstrPCs == {0, \o177, \o200, \o7777}
InstrACs == {0, 1, \o4000, \o7777}
InstrLs  == {0, 1}
Words1   == {0, \o100, \o7776, \o7777}
Words2   == {0, 1, \o7777}

\* Memory-reference instructions: every opcode 0..5, direct and indirect,
\* page zero and current page, offsets in and out of the auto-index range
MemRefInstrs ==
    { op * 512 + i * 256 + z * 128 + off :
        op \in 0 .. 5, i \in {0, 1}, z \in {0, 1}, off \in {\o10, \o20, \o177} }

\* IOT and microcoded instructions
OtherInstrs ==
    {\o6000, \o6001, \o6002, \o6033, \o6036, \o6046,
     \o7000, \o7001, \o7002, \o7004, \o7010, \o7041, \o7200, \o7240, \o7300,
     \o7402, \o7404, \o7440, \o7450, \o7421, \o7501, \o7521}

\* The machine after "pc", "ac", "l" and the three deposits
Prepared(pcv, acv, lv, instr, w1, w2) ==
    LET m0 == [MachineInit EXCEPT !.pc = Mask12(pcv), !.ac = Mask12(acv),
                                  !.l = lv % 2]
        da == DirectAddress(m0, instr)
        ea == IF da >= \o10 /\ da < \o20 THEN Mask12(w1 + 1) ELSE w1
    IN  deposit(deposit(deposit(m0, ea, w2), da, w1), m0.pc, instr)

InitInstr ==
    \E pcv \in InstrPCs, acv \in InstrACs, lv \in InstrLs,
       instr \in MemRefInstrs \cup OtherInstrs, w1 \in Words1, w2 \in Words2 :
        Starts(Prepared(pcv, acv, lv, instr, w1, w2))

NextInstr == Step(MaxInstrSteps, {})

SpecInstr == InitInstr /\ [][NextInstr]_vars

-----------------------------------------------------------------------------
(* SpecPoll: device polling and interrupts.  The machine starts as         *)
(* constructed, with a short program stored by "d" commands and AC set by  *)
(* "ac"; step() then runs past three poll boundaries, the host keyboard    *)
(* offering any byte, or none, at each.                                    *)

MaxPollSteps == 304

PollHostBytes == {\o101, \o302}
PollACs == {0, \o7702}

\* The IOT instructions of the device bus and of the processor, and the
\* unmapped ones next to them
PollIOTs ==
    KeyboardOpcodes \cup PrinterOpcodes \cup {\o6000, \o6001, \o6002, \o6033, \o6047}

\* "d" commands, as << address, word >> pairs in the order given
Programs ==
    \* one IOT in a loop: op; JMP 0
    { << <<0, op>>, <<1, \o5000>> >> : op \in PollIOTs }
    \* the same with interrupts on; the interrupt vector at 1 is the loop
    \cup { << <<0, \o6001>>, <<1, op>>, <<2, \o5001>> >> : op \in PollIOTs }
    \* one IOT met once, before the first, second or third poll boundary
    \cup { << <<a, op>> >> :
             a \in {1, 100, 150, 250},
             op \in {\o6001, \o6002, \o6031, \o6036, \o6046} }
    \* interrupts on at 0 and one IOT met at a poll boundary or after it
    \cup { << <<0, \o6001>>, <<a, op>> >> :
             a \in {50, 100},
             op \in {\o6001, \o6002, \o6036, \o6042, \o6046} }
    \* wait for a key, read it, print it
    \cup { << <<0, \o6031>>, <<1, \o5000>>, <<2, \o6036>>, <<3, \o6046>>,
              <<4, \o5000>> >> }
    \* print, then set, clear and test the printer flag with interrupts on
    \cup { << <<0, \o6046>>, <<1, \o6001>>, <<2, \o6040>>, <<3, \o6041>>,
              <<4, \o6042>>, <<5, \o6044>>, <<6, \o5001>> >> }

\* The machine after the "d" commands of prog
RECURSIVE Load(_, _)
Load(m, prog) ==
    IF prog = << >> THEN m
    ELSE Load(deposit(m, Head(prog)[1], Head(prog)[2]), Tail(prog))

InitPoll ==
    \E prog \in Programs, acv \in PollACs :
        Starts(Load([MachineInit EXCEPT !.ac = Mask12(acv)], prog))

NextPoll == Step(MaxPollSteps, PollHostBytes)

SpecPoll == InitPoll /\ [][NextPoll]_vars

-----------------------------------------------------------------------------
(* SpecTape: the paper tape.  The machine starts as constructed with a     *)
(* program stored by "d" commands and, in some runs, a tape attached by    *)
(* "pt"; step() runs past five poll boundaries, and between steps the      *)
(* console attaches another tape or detaches the current one.              *)

MaxTapeSteps == 506
MaxTapeCmds == 2

\* The step counts at which the console is given a "pt" command
TapeCmdSteps == {150, 350}

\* Tape images: empty, one byte above 7 bits, two bytes
Tapes == { << >>, << \o301 >>, << \o101, \o102 >> }

TapeHostBytes == {\o103}

\* wait for a character, read it, print it
EchoProgram ==
    << <<0, \o6031>>, <<1, \o5000>>, <<2, \o6036>>, <<3, \o6046>>, <<4, \o5000>> >>

TapePrograms ==
    { EchoProgram,
      \* read without waiting
      << <<0, \o6036>>, <<1, \o5000>> >>,
      \* never read
      << <<0, \o5000>> >>,
      \* interrupts on; the handler at 1 reads and returns through 0
      << <<0, \o6001>>, <<1, \o6036>>, <<2, \o6001>>, <<3, \o5400>> >> }

InitTape ==
    \E prog \in TapePrograms :
        \/ Starts(Load(MachineInit, prog))
        \/ \E tape \in Tapes :
             Starts(Load([MachineInit EXCEPT !.kb = attachPaperTape(KeyboardInit, tape)],
                         prog))

NextTape ==
    \/ Step(MaxTapeSteps, TapeHostBytes)
    \/ \E tape \in Tapes : nsteps \in TapeCmdSteps /\ AttachTape(MaxTapeCmds, tape)
    \/ nsteps \in TapeCmdSteps /\ DetachTape(MaxTapeCmds)

SpecTape == InitTape /\ [][NextTape]_vars

-----------------------------------------------------------------------------
(* SpecWords: every IOT and microcoded instruction word.  The machine      *)
(* starts as a console session leaves the constructed machine: "pc", "ac", *)
(* "l" and "sw" set the registers, "d" stores a first instruction (which   *)
(* leaves MQ or IE set for the second) and after it any word whose top     *)
(* three bits are 6 or 7, and in some runs "r" has cleared _halted.  Then  *)
(* step() runs.                                                            *)

MaxWordSteps == 2

WordPC  == \o7776
WordACs == {0, \o4000, \o7777, \o2503}
WordLs  == {0, 1}
WordSWs == {0, \o7070}

\* The first instruction: NOP, MQL (AC to MQ) or ION
FirstWords == {\o7000, \o7421, \o6001}

\* The second instruction: every IOT and every microcoded word
SecondWords == \o6000 .. \o7777

InitWords ==
    \E acv \in WordACs, lv \in WordLs, swv \in WordSWs, h \in BOOLEAN,
       w1 \in FirstWords, w2 \in SecondWords :
        Starts(deposit(deposit([MachineInit EXCEPT !.pc = Mask12(WordPC),
                                                   !.ac = Mask12(acv),
                                                   !.l = lv % 2,
                                                   !.switch = Mask12(swv),
                                                   !.halted = h],
                               WordPC, w1),
                       WordPC + 1, w2))

NextWords == Step(MaxWordSteps, {})

SpecWords == InitWords /\ [][NextWords]_vars

-----------------------------------------------------------------------------
(* SpecPrinter: the printer under every order of its IOTs.  The machine    *)
(* starts as constructed with a loop of four printer IOTs stored by "d"    *)
(* commands; step() runs past two poll boundaries, which fall on different *)
(* instructions of the loop.                                               *)

MaxPrinterSteps == 206

\* four printer IOTs, then JMP 0
PrinterPrograms ==
    { << <<0, a>>, <<1, b>>, <<2, c>>, <<3, d>>, <<4, \o5000>> >> :
        a \in PrinterOpcodes, b \in PrinterOpcodes,
        c \in PrinterOpcodes, d \in PrinterOpcodes }

InitPrinter == \E prog \in PrinterPrograms : Starts(Load(MachineInit, prog))

NextPrinter == Step(MaxPrinterSteps, {})

SpecPrinter == InitPrinter /\ [][NextPrinter]_vars

-----------------------------------------------------------------------------
(* The claims.  `pre` holds the machine as the last step() found it and    *)
(* `last` what that step did, so a claim about one step() is a predicate   *)
(* of the state the step leaves.                                           *)

\* The last operation was a step()
LastStep == last.op = "step"

\* The instruction word the last step() executed
Executed == getInstruction(pre)

\* The machine the last step() would have left had it not been a poll
\* boundary: the same step from the same machine with the poll counter at 0
Unpolled == step([pre EXCEPT !.ioPollCounter = 0], NoChar).m

\* C2 (as claimed): AC, MQ, PC, the switch register and every memory word
\* are in 0..4095 and L is 0 or 1, after any sequence of step(), deposit and
\* register commands from the constructed machine.
C2_TwelveBit ==
    /\ ac \in 0 .. \o7777
    /\ mq \in 0 .. \o7777
    /\ pc \in 0 .. \o7777
    /\ switch \in 0 .. \o7777
    /\ l \in {0, 1}
    /\ \A a \in DOMAIN memory : a \in 0 .. \o7777 /\ memory[a] \in 0 .. \o7777

\* The instruction is a memory reference through an auto-index location
AutoIndexed(m, instr) ==
    /\ OpcodeOf(instr) <= 5
    /\ Has(instr, \o400)
    /\ DirectAddress(m, instr) \in \o10 .. \o17

\* C3 (as claimed): a memory-reference instruction executed with the
\* indirect bit set and its pointer P in 8..15 leaves memory[P] one more
\* (mod 4096) than it was, and the operand it reads or writes is the single
\* word E the incremented pointer addresses: ISZ increments memory[E], DCA
\* stores AC there, JMS stores the return address there and lands after it,
\* JMP lands on it.
C3_AutoIndexOnce ==
    (LastStep /\ AutoIndexed(pre, Executed) /\ ~last.delivered) =>
        LET P == DirectAddress(pre, Executed)
            E == Mask12(Read(pre.memory, P) + 1)
        IN  /\ Read(memory, P) = E
            /\ OpcodeOf(Executed) = 2 =>
                   Read(memory, E) = Mask12(Read(pre.memory, E) + 1)
            /\ OpcodeOf(Executed) = 3 => Read(memory, E) = pre.ac
            /\ OpcodeOf(Executed) = 4 =>
                   Read(memory, E) = Mask12(pre.pc + 1) /\ pc = Mask12(E + 1)
            /\ OpcodeOf(Executed) = 5 => pc = E

\* C4 (as claimed): a JMS executed at address P with effective target T,
\* resolved from the page of P, leaves memory[T] = P + 1 and PC = T + 1
\* (mod 4096) when the step delivers no interrupt.
C4_JMSReturnAddress ==
    (LastStep /\ OpcodeOf(Executed) = 4 /\ ~last.delivered) =>
        LET T == getEffectiveAddress(pre, Executed).addr
        IN  /\ Read(memory, T) = Mask12(pre.pc + 1)
            /\ pc = Mask12(T + 1)

\* C7: with AC in 12 bits, TAD leaves AC = (AC + operand) mod 4096 and
\* complements L exactly when AC + operand exceeds 4095, leaving L alone
\* otherwise; IAC (7001) leaves AC = (AC + 1) mod 4096 and complements L
\* exactly when AC was 4095.
C7_LinkIsThirteenthBit ==
    (LastStep /\ pre.ac \in 0 .. \o7777) =>
        /\ OpcodeOf(Executed) = 1 =>
              LET operand == getArg(pre, Executed).arg
              IN  /\ operand \in 0 .. \o7777
                  /\ ac = (pre.ac + operand) % 4096
                  /\ l = IF pre.ac + operand > 4095 THEN 1 - pre.l ELSE pre.l
        /\ Executed = \o7001 =>
              /\ ac = (pre.ac + 1) % 4096
              /\ l = IF pre.ac = 4095 THEN 1 - pre.l ELSE pre.l

\* C7 witness: a TAD that carried out of AC with L set, and cleared L
C7_Witness ==
    /\ LastStep
    /\ OpcodeOf(Executed) = 1
    /\ pre.ac + getArg(pre, Executed).arg > 4095
    /\ pre.l = 1
    /\ l = 0
    /\ ac = (pre.ac + getArg(pre, Executed).arg) % 4096

\* C1 (as claimed): a step() that executes interrupt-on (6001) with IE
\* false returns with IE still false.
C1_EnableDeferredToNextStep ==
    (LastStep /\ Executed = \o6001 /\ ~pre.ie) => ~ie

\* C1 (amended): a step() that executes interrupt-on (6001) with IE false
\* delivers no interrupt, and returns with IE true and the delay counter
\* back at 0: the enable is deferred past that step's interrupt check, not
\* to the following step.
C1_EnabledWhenStepReturns ==
    (LastStep /\ Executed = \o6001 /\ ~pre.ie) =>
        /\ ~last.delivered
        /\ ie
        /\ ieCounter = 0
        /\ pc = Mask12(pre.pc + 1)

\* C1 witness: interrupt-on executed with IE false in a step that clocked
\* the devices and left the keyboard flag set
C1_Witness ==
    /\ LastStep
    /\ Executed = \o6001
    /\ ~pre.ie
    /\ last.polled
    /\ kb.flag
    /\ ie

\* The devices were not clocked by the last step: nothing was captured from
\* the host, and no flag or interrupt request was raised
NotClocked ==
    /\ kb.char = pre.kb.char
    /\ kb.charReady = pre.kb.charReady
    /\ kb.flag => pre.kb.flag
    /\ pr.interrupt => pre.pr.interrupt
    /\ pr.outputPending => (pre.pr.outputPending \/ Executed \in PrinterOpcodes)

C6_Delivery ==
    (LastStep /\ last.polled) =>
        /\ last.delivered <=>
              ((pre.ie /\ Executed # \o6002) /\ (kb.flag \/ pr.interrupt))
        /\ last.delivered =>
              /\ Read(memory, 0) = Unpolled.pc
              /\ pc = 1
              /\ ~ie

\* C8 (as claimed): 6035 has the effect of 6034 on AC and the keyboard, and
\* 6045 the effect of 6044 on the printer and the output, from every state.
C8_Function5AsFunction4 ==
    /\ op_iot(Machine, \o6035).ac = op_iot(Machine, \o6034).ac
    /\ op_iot(Machine, \o6035).kb = op_iot(Machine, \o6034).kb
    /\ op_iot(Machine, \o6045).pr = op_iot(Machine, \o6044).pr
    /\ op_iot(Machine, \o6045).stdout = op_iot(Machine, \o6044).stdout

\* C8 (amended): 6035 and 6045 reach their device, which has no branch for
\* function 5: from every state they change nothing, and a step() that
\* executes one leaves AC, L, both devices (up to the poll's clock) and the
\* output as they were and moves PC on by 1.
C8_Function5IsNoOp ==
    /\ op_iot(Machine, \o6035) = Machine
    /\ op_iot(Machine, \o6045) = Machine
    /\ (LastStep /\ Executed \in {\o6035, \o6045}) =>
          /\ ac = pre.ac
          /\ l = pre.l
          /\ stdout = pre.stdout
          /\ ~last.polled => (kb = pre.kb /\ pr = pre.pr /\ pc = Mask12(pre.pc + 1))

\* C8 witness: 6035 executed with a character held whose bits AC lacks, and
\* AC unchanged
C8_Witness ==
    /\ LastStep
    /\ Executed = \o6035
    /\ pre.kb.flag
    /\ BitOr(pre.ac, pre.kb.char) # pre.ac
    /\ ac = pre.ac
    /\ kb.flag

\* C9 (as claimed): with no tape attached and the keyboard flag clear, a
\* clock() for which the host has a 7-bit character c (other than the
\* line feed the host source translates) leaves the flag set and c held;
\* 6036 leaves AC = the held character whatever AC was, clears the flag and
\* does not skip; 6031 skips exactly when the flag is set.
C9_KeyboardRoundTrip ==
    LastStep =>
        /\ ( /\ last.polled
             /\ ~pre.kb.paperTapeLoaded
             /\ ~pre.kb.flag
             /\ Executed \notin KeyboardOpcodes
             /\ last.host \in (0 .. 127) \ {10} )
           => (kb.flag /\ kb.char = last.host)
        /\ (Executed = \o6036 /\ ~last.polled)
           => (ac = pre.kb.char /\ ~kb.flag /\ pc = Mask12(pre.pc + 1))
        /\ (Executed = \o6031 /\ ~last.delivered)
           => pc = Mask12(pre.pc + (IF pre.kb.flag THEN 2 ELSE 1))

\* The printer after 6046 and before the next clock(): busy, output pending
PrinterBusy == [flag |-> FALSE, outputPending |-> TRUE, interrupt |-> FALSE]

\* The printer after the clock() that ends the output
PrinterDone == [flag |-> TRUE, outputPending |-> FALSE, interrupt |-> TRUE]

\* C10: from every printer state a step() that executes 6046 appends AC mod
\* 128 to the output and leaves the printer busy (flag and interrupt request
\* false, output pending), or done if that step is itself a poll boundary;
\* while no printer IOT executes the printer stays busy until the next poll
\* boundary, at most 101 steps on, which leaves flag and interrupt request
\* true and output pending false.
C10_PrinterRoundTrip ==
    LastStep =>
        /\ Executed = \o6046 =>
              /\ stdout = Append(pre.stdout, pre.ac % 128)
              /\ pr = IF last.polled THEN PrinterDone ELSE PrinterBusy
        /\ (pre.pr = PrinterBusy /\ Executed \notin PrinterOpcodes) =>
              pr = IF last.polled THEN PrinterDone ELSE PrinterBusy
        /\ pre.ioPollCounter \in 0 .. PollThreshold
        /\ last.polled <=> (pre.ioPollCounter = PollThreshold)
        /\ ~last.polled => ioPollCounter = pre.ioPollCounter + 1

\* C10 witness: a poll boundary reached with the printer busy since a 6046
\* printed a character, and the printer done after it
C10_Witness ==
    /\ LastStep
    /\ last.polled
    /\ pre.pr = PrinterBusy
    /\ Executed \notin PrinterOpcodes
    /\ pr = PrinterDone
    /\ Len(stdout) > 0
    /\ stdout[Len(stdout)] = \o102


\* C11 (as claimed): from every printer state a step() that executes 6044
\* appends AC mod 128 to the output and marks output pending, and the poll
\* tick that follows a pending output, no printer IOT intervening, leaves
\* the flag and the interrupt request true and output pending false.
C11_PrinterWriteKeepsFlag ==
    LastStep =>
        /\ Executed = \o6044 =>
              /\ stdout = Append(pre.stdout, pre.ac % 128)
              /\ ~last.polled => pr = [pre.pr EXCEPT !.outputPending = TRUE]
              /\ last.polled => pr = PrinterDone
        /\ (last.polled /\ pre.pr.outputPending /\ Executed \notin PrinterOpcodes)
              => pr = PrinterDone


\* The keyboard as the last step()'s instruction left it, before the clock
AfterInstruction == Unpolled.kb

\* The low 7 bits of each byte, as the printer writes them
Low7(bytes) == [i \in 1 .. Len(bytes) |-> bytes[i] % 128]

\* The bytes between the tape and the output of the echo program: the one
\* read into AC and not yet printed, and the one held by the keyboard
InTransit ==
    (IF pc = 3 THEN << ac >> ELSE << >>) \o (IF kb.flag THEN << kb.char >> ELSE << >>)

\* C12: while a tape is attached, a clock() that finds the flag clear takes
\* the next byte of the tape, holds it and sets the flag; one that finds the
\* flag set takes nothing; the host's keystrokes are not consumed.  At the
\* end of the tape the clock() detaches, holds 0, leaves the flag clear and
\* prints the notice; no other step prints it or moves the tape, so there
\* is at most one notice per tape attached.  The echo program prints the
\* bytes of the tape in order, none skipped.
C12_PaperTapeProtocol ==
    /\ (LastStep /\ last.polled /\ pre.kb.paperTapeLoaded) =>
          LET k0 == AfterInstruction
          IN  /\ k0.flag => (kb = k0 /\ notices = pre.notices)
              /\ (~k0.flag /\ k0.tape # << >>) =>
                    /\ kb = [k0 EXCEPT !.char = Head(k0.tape), !.flag = TRUE,
                                       !.tape = Tail(k0.tape)]
                    /\ notices = pre.notices
              /\ (~k0.flag /\ k0.tape = << >>) =>
                    /\ kb = [k0 EXCEPT !.char = 0, !.paperTapeLoaded = FALSE]
                    /\ ~kb.flag
                    /\ notices = pre.notices + 1
              /\ kb.charReady = pre.kb.charReady
    /\ (LastStep /\ ~(last.polled /\ pre.kb.paperTapeLoaded)) =>
          /\ notices = pre.notices
          /\ kb.tape = pre.kb.tape
          /\ kb.paperTapeLoaded = pre.kb.paperTapeLoaded
    /\ notices <= ncmds + 1
    /\ (memory = Load(MachineInit, EchoProgram).memory /\ ncmds = 0
            /\ kb.paperTapeLoaded) =>
          \E tape \in Tapes : Low7(stdout \o InTransit \o kb.tape) = Low7(tape)

\* C12 witness: the echo program has printed both bytes of the two-byte
\* tape, and the clock() that found the tape at its end has detached it and
\* printed the notice, the host offering a keystroke at that tick
C12_Witness ==
    /\ LastStep
    /\ last.polled
    /\ last.host # NoChar
    /\ pre.kb.paperTapeLoaded
    /\ ~kb.paperTapeLoaded
    /\ notices = 1
    /\ stdout = << \o101, \o102 >>
    /\ kb.char = 0
    /\ ~kb.charReady


\* C13: a step() that executes a Group 2 AND-class word (word & 7411 = 7410)
\* skips the next instruction exactly when every requested test holds on the
\* values AC and L had on entry (20: L = 0; 40: AC # 0; 100: AC's sign bit
\* clear), unconditionally with no test requested, and leaves AC cleared if
\* bit 200 is set and as it was otherwise.
C13_AndClassSkip ==
    (LastStep /\ BitAnd(Executed, \o7411) = \o7410) =>
        LET szl == Has(Executed, \o20) => pre.l = 0
            sna == Has(Executed, \o40) => pre.ac # 0
            spa == Has(Executed, \o100) => pre.ac % 4096 < 2048
        IN  /\ pc = Mask12(pre.pc + (IF szl /\ sna /\ spa THEN 2 ELSE 1))
            /\ ac = IF Has(Executed, \o200) THEN 0 ELSE pre.ac
            /\ l = pre.l
            /\ ~halted => ~pre.halted

\* C13 witness: SZL SNA CLA (7670) met with L = 0 and AC # 0: the skip is
\* taken on the entry AC although the instruction clears AC
C13_Witness ==
    /\ LastStep
    /\ Executed = \o7670
    /\ pre.l = 0
    /\ pre.ac # 0
    /\ ac = 0
    /\ pc = Mask12(pre.pc + 2)

\* The 13-bit L:AC rotated right and left by one
Rot13R(v) == (v \div 2) + (v % 2) * 4096
Rot13L(v) == ((v * 2) % 8192) + (v \div 4096)

\* The 13-bit L:AC a Group 1 word w leaves of link lv and accumulator av,
\* its operations applied in the order CLA, CLL, CMA, CML, IAC, RAR, RAL
\* and, with the combine bit, the selected rotate once more
Group1Result(w, lv, av) ==
    LET a1 == IF Has(w, \o200) THEN 0 ELSE av
        l1 == IF Has(w, \o100) THEN 0 ELSE lv
        a2 == IF Has(w, \o40) THEN 4095 - a1 ELSE a1
        l2 == IF Has(w, \o20) THEN 1 - l1 ELSE l1
        v2 == l2 * 4096 + a2
        v3 == IF Has(w, \o1) THEN (v2 + 1) % 8192 ELSE v2
        v4 == IF Has(w, \o10) THEN Rot13R(v3) ELSE v3
        v5 == IF Has(w, \o4) THEN Rot13L(v4) ELSE v4
        v6 == IF Has(w, \o2) /\ Has(w, \o10) THEN Rot13R(v5) ELSE v5
    IN  IF Has(w, \o2) /\ Has(w, \o4) THEN Rot13L(v6) ELSE v6

\* C14: a step() that executes a Group 1 word (word & 7400 = 7000) other
\* than the byte swap leaves L:AC as the operations whose bits are set make
\* it, applied in the order clear AC, clear L, complement AC, complement L,
\* increment, rotate right, rotate left, rotate once more; CLA CMA (with no
\* increment or rotate) leaves AC = 7777 and CLL CML (likewise) leaves
\* L = 1.  Nothing but the next PC changes besides.
C14_Group1Order ==
    (LastStep /\ BitAnd(Executed, \o7400) = \o7000
              /\ ~(Has(Executed, \o2) /\ BitAnd(Executed, \o14) = 0)) =>
        /\ l * 4096 + ac = Group1Result(Executed, pre.l, pre.ac)
        /\ ac \in 0 .. 4095
        /\ l \in {0, 1}
        /\ BitAnd(Executed, \o7657) = \o7240 => ac = \o7777
        /\ BitAnd(Executed, \o7537) = \o7120 => l = 1
        /\ pc = Mask12(pre.pc + 1)
        /\ mq = pre.mq
        /\ memory = pre.memory

\* C14 witness: CLA CMA (7240) met with a non-zero AC, leaving 7777
C14_Witness ==
    /\ LastStep
    /\ Executed = \o7240
    /\ pre.ac = \o2503
    /\ ac = \o7777


\* An IOT word that is neither in the device table nor one of the
\* processor's own 6000, 6001, 6002
UnmappedIOT(w) ==
    /\ OpcodeOf(w) = 6
    /\ w \notin KeyboardOpcodes \cup PrinterOpcodes \cup {\o6000, \o6001, \o6002}

\* C15: a step() that executes an unmapped IOT word raises no error, moves
\* PC on by exactly 1 and leaves AC, L, MQ, IE, the halted flag, the memory,
\* both devices and the output as they were.
C15_UnmappedIOTNoOp ==
    (LastStep /\ UnmappedIOT(Executed) /\ ~last.polled) =>
        /\ ~last.raised
        /\ pc = Mask12(pre.pc + 1)
        /\ ac = pre.ac
        /\ l = pre.l
        /\ mq = pre.mq
        /\ ie = pre.ie
        /\ halted = pre.halted
        /\ memory = pre.memory
        /\ kb = pre.kb
        /\ pr = pre.pr
        /\ stdout = pre.stdout

\* C15 witness: 6052 (device 5, function 2, the function bits of
\* interrupt-off) executed with IE true and AC non-zero, both unchanged
C15_Witness ==
    /\ LastStep
    /\ Executed = \o6052
    /\ pre.ie
    /\ ie
    /\ pre.ac = \o7777
    /\ ac = \o7777
    /\ pc = 0

\* C17: a step() that executes a Group 2 OR-class word (word & 7411 = 7400)
\* skips the next instruction exactly when a requested test holds on the
\* entry values (20: L # 0; 40: AC = 0; 100: AC's sign bit set), never with
\* no test requested; AC is then cleared if bit 200 is set and the switch
\* register OR-ed in if bit 4 is set, so CLA OSR leaves AC = the switch
\* register.  A step() leaves the halted flag true exactly when it was true
\* already or the word executed is of this class with bit 2 set.
C17_OrClass ==
    LastStep =>
        /\ BitAnd(Executed, \o7411) = \o7400 =>
              LET snl == Has(Executed, \o20) /\ pre.l # 0
                  sza == Has(Executed, \o40) /\ pre.ac = 0
                  sma == Has(Executed, \o100) /\ pre.ac % 4096 >= 2048
                  cleared == IF Has(Executed, \o200) THEN 0 ELSE pre.ac
              IN  /\ pc = Mask12(pre.pc + (IF snl \/ sza \/ sma THEN 2 ELSE 1))
                  /\ ac = IF Has(Executed, \o4) THEN BitOr(cleared, switch)
                          ELSE cleared
                  /\ BitAnd(Executed, \o7604) = \o7604 => ac = switch
                  /\ l = pre.l
                  /\ switch = pre.switch
        /\ halted <=> \/ pre.halted
                      \/ BitAnd(Executed, \o7411) = \o7400 /\ Has(Executed, \o2)

\* C17 witness: CLA OSR HLT (7606) met in the run loop with AC non-zero and
\* the switches set: AC is the switch register and the machine has halted
C17_Witness ==
    /\ LastStep
    /\ Executed = \o7606
    /\ ~pre.halted
    /\ halted
    /\ pre.ac = \o2503
    /\ switch = \o7070
    /\ ac = \o7070
    /\ pc = Mask12(pre.pc + 1)

\* How many of the four group patterns of op_micro the word w matches
GroupsMatched(w) ==
    Cardinality({ g \in 1 .. 4 :
        \/ g = 1 /\ BitAnd(w, \o7400) = \o7000
        \/ g = 2 /\ BitAnd(w, \o7411) = \o7400
        \/ g = 3 /\ BitAnd(w, \o7411) = \o7410
        \/ g = 4 /\ BitAnd(w, \o7401) = \o7401 })

\* C20: the word a step() executes, if its top three bits are 7, matches
\* exactly one of the four group patterns, and no step() reaches the
\* catch-all branch of op_micro.
C20_MicroCoverage ==
    LastStep =>
        /\ OpcodeOf(Executed) = 7 => GroupsMatched(Executed) = 1
        /\ ~last.raised

\* C20 witness: the word with every bit set (7777) executed as Group three:
\* CLA and the swap of AC and MQ, MQ having been loaded by the step before
C20_Witness ==
    /\ LastStep
    /\ Executed = \o7777
    /\ ~last.raised
    /\ pre.mq = \o2503
    /\ ac = \o2503
    /\ mq = 0


\* What the "d" command with address a and data d is claimed to do
DepositEffect(a, d) ==
    /\ IF a \in 0 .. 4095
       THEN \A x \in (DOMAIN memory) \cup (DOMAIN memory') \cup {a} :
               Read(memory', x) = IF x = a THEN d % 4096 ELSE Read(memory, x)
       ELSE memory' = memory
    /\ UNCHANGED << pc, ac, mq, l, ie, ieCounter, switch, halted,
                    ioPollCounter, kb, pr, stdout, notices >>

\* C16: deposit(a, v) with a outside 0..4095 changes no memory word and no
\* register; with a in 0..4095 it leaves memory[a] = v mod 4096 and changes
\* no other memory word and no register.
C16_DepositBoundary ==
    [][\A a \in DepositAddrs, d \in DepositData :
          Deposit(MaxCmds, a, d) => DepositEffect(a, d)]_vars

\* C16 witness: after a step the first console command was a deposit, and
\* the memory is still all zero: the deposit was one to an address out of
\* range (no data of DepositData is 0 mod 4096)
C16_Witness ==
    /\ last.op = "deposit"
    /\ nsteps = 1
    /\ ncmds = 1
    /\ memory = EmptyMemory


\* The effective address of a memory-reference word w executed at address p
\* in memory mem, as claimed: the low 7 bits, on the page of p when bit 200
\* is set; with bit 400 the word found there, after it is incremented when
\* the location is one of 10..17
ClaimedAddress(mem, p, w) ==
    LET direct == IF Has(w, \o200) THEN ((p \div 128) * 128) + (w % 128)
                  ELSE w % 128
    IN  IF ~Has(w, \o400) THEN direct
        ELSE IF direct \in \o10 .. \o17 THEN (Read(mem, direct) + 1) % 4096
        ELSE Read(mem, direct)

\* C18: a step() that executes a JMP at address P leaves PC at exactly the
\* effective address E, E = 0 included; for every direct JMP word E is the
\* low 7 bits when bit 200 is clear and (P & 7600) | offset when it is set
\* (PC = 0200, offset 17 gives 0217).
C18_JmpLandsOnTarget ==
    /\ (LastStep /\ OpcodeOf(Executed) = 5 /\ ~last.delivered) =>
          pc = ClaimedAddress(pre.memory, pre.pc, Executed)
    /\ nsteps = 0 =>
          \A z \in {0, 1}, off \in 0 .. \o177 :
             LET w == \o5000 + z * \o200 + off
             IN  incrementPC(op_jmp(Machine, w)).pc =
                    IF z = 0 THEN off ELSE ((pc \div 128) * 128) + off
    /\ (nsteps = 0 /\ pc = \o200) =>
          incrementPC(op_jmp(Machine, \o5217)).pc = \o217

\* C18 witness: an indirect JMP executed away from the last word of memory
\* that landed on address 0
C18_Witness ==
    /\ LastStep
    /\ OpcodeOf(Executed) = 5
    /\ Has(Executed, \o400)
    /\ pre.pc = \o200
    /\ pc = 0

\* C19: a step() that executes an ISZ, direct or indirect through a pointer
\* outside 10..17, with effective address E leaves memory[E] one more (mod
\* 4096) than it was and every other word as it was, leaves AC and L as
\* they were, and moves PC on by 2 if the new value is 0 and by 1 otherwise.
C19_IszIncrementsAndSkips ==
    (LastStep /\ OpcodeOf(Executed) = 2 /\ ~AutoIndexed(pre, Executed)
              /\ ~last.delivered) =>
        LET E   == ClaimedAddress(pre.memory, pre.pc, Executed)
            new == (Read(pre.memory, E) + 1) % 4096
        IN  /\ Read(memory, E) = new
            /\ \A x \in ((DOMAIN memory) \cup (DOMAIN pre.memory)) \ {E} :
                   Read(memory, x) = Read(pre.memory, x)
            /\ ac = pre.ac
            /\ l = pre.l
            /\ pc = Mask12(pre.pc + (IF new = 0 THEN 2 ELSE 1))

\* C19 witness: an indirect ISZ through a pointer outside 10..17 whose
\* operand went from 7777 to 0, and the skip taken
C19_Witness ==
    /\ LastStep
    /\ OpcodeOf(Executed) = 2
    /\ Has(Executed, \o400)
    /\ ~AutoIndexed(pre, Executed)
    /\ Read(pre.memory, ClaimedAddress(pre.memory, pre.pc, Executed)) = \o7777
    /\ Read(memory, ClaimedAddress(pre.memory, pre.pc, Executed)) = 0
    /\ pc = Mask12(pre.pc + 2)


\* C21 (as claimed): with no tape attached, a step() that finds the keyboard
\* flag set and leaves it set, executing no keyboard IOT, leaves the held
\* character as it was, whatever the host offers at a poll tick.
C21_LatchStable ==
    (LastStep /\ ~pre.kb.paperTapeLoaded /\ pre.kb.flag /\ kb.flag
              /\ Executed \notin KeyboardOpcodes) =>
        kb.char = pre.kb.char


\* C22 (as claimed): a step() that executes interrupt-on (6001) delivers no
\* interrupt, poll boundary or not: it leaves PC at the instruction after
\* interrupt-on and memory (memory[0] with it) as it was, so that
\* instruction is executed before any delivery.
C22_GraceAfterInterruptOn ==
    (LastStep /\ Executed = \o6001) =>
        /\ ~last.delivered
        /\ pc = Mask12(pre.pc + 1)
        /\ memory = pre.memory


\* The printer as the last step()'s instruction left it, before the clock
PrinterAfterInstruction == Unpolled.pr

\* C23: in every printer state reached from the constructed printer by
\* printer IOTs and clock() ticks in any order, the interrupt request is
\* true only if the flag is; no IOT raises the request, every IOT that
\* clears the flag leaves the request clear, and the request is raised only
\* by a clock().
C23_PrinterFlagInvariant ==
    /\ pr.interrupt => pr.flag
    /\ LastStep =>
          LET p0 == PrinterAfterInstruction
          IN  /\ p0.interrupt => pre.pr.interrupt
              /\ (pre.pr.flag /\ ~p0.flag) => ~p0.interrupt
              /\ (pr.interrupt /\ ~p0.interrupt) => last.polled
              /\ ~last.polled => pr = p0

\* C23 witness: a request raised by a clock() and standing with the flag,
\* both cleared by function 2 (6042)
C23_Witness ==
    /\ LastStep
    /\ Executed = \o6042
    /\ pre.pr.interrupt
    /\ pre.pr.flag
    /\ ~pr.flag
    /\ ~pr.interrupt

=============================================================================
